---- MODULE Spec2Model ----
(***************************************************************************)
(* Model of scripts/kinesis_consumer.py: main(args) creates a Kinesis      *)
(* client, asks for a TRIM_HORIZON shard iterator, fetches one batch of    *)
(* records and prints them as a table.                                     *)
(*                                                                         *)
(* Text is modelled as a sequence of code points, a payload as a sequence  *)
(* of bytes.  The Kinesis service and the boto3 client are the             *)
(* environment: every remote call either returns a response or raises.     *)
(***************************************************************************)
EXTENDS Integers, Sequences, FiniteSets, TLC

VARIABLES pc, stream_name, shard_id, aws_region, calls, itr_response,
          shard_itr, records_response, idx, out, exit

vars == <<pc, stream_name, shard_id, aws_region, calls, itr_response,
          shard_itr, records_response, idx, out, exit>>

----------------------------------------------------------------------------
(* Bounds and sample inputs *)

MaxRecords == 3

\* Program constants
Limit == 200
ShardWidth == 20
PositionWidth == 60
MessageWidth == 40

SP == 32
DASH == 45

Rep(c, n) == [k \in 1..n |-> c]

Max(a, b) == IF a >= b THEN a ELSE b
Min(a, b) == IF a <= b THEN a ELSE b

\* A response name that has not been assigned yet, the iterator name
\* before line 20, and the exit status of a process that is still running
None == [Unassigned |-> TRUE]
Unbound == "unbound"
Running == -1

\* "Shard", "Position", "Message"
StrShard == <<83, 104, 97, 114, 100>>
StrPosition == <<80, 111, 115, 105, 116, 105, 111, 110>>
StrMessage == <<77, 101, 115, 115, 97, 103, 101>>

\* "shardId-0001", "shardId-000000000000" (20 characters, the service's
\* form) and a 21 character identifier
ShardShort == <<115, 104, 97, 114, 100, 73, 100, 45, 48, 48, 48, 49>>
ShardFull == <<115, 104, 97, 114, 100, 73, 100, 45>> \o Rep(48, ShardWidth - 8)
ShardLong == <<115, 104, 97, 114, 100, 73, 100, 45>> \o Rep(48, ShardWidth - 7)
ShardIds == {ShardShort, ShardFull, ShardLong}

StreamNames == {"orders"}
Regions == {"us-east-1"}
Cursors == {"abc123", "def456"}
NextCursors == {"next789"}

\* Sequence numbers: "4956", and one of 61 digits
SeqShort == <<52, 57, 53, 54>>
SeqLong == Rep(52, PositionWidth + 1)

\* Payloads: b"hi", b"\xc3\xa9" (one code point from two bytes),
\* b"h\xc3" (truncated sequence), b"\xff" (invalid start byte) and
\* 41 bytes of "A"
DataHi == <<104, 105>>
DataEAcute == <<195, 169>>
DataTruncated == <<104, 195>>
DataBadStart == <<255>>
DataLong == Rep(65, MessageWidth + 1)

\* The records a batch is made of: every payload and every sequence number
\* occurs, and each long value occurs next to a short one
RecordValues ==
    {[SequenceNumber |-> SeqShort, Data |-> DataHi],
     [SequenceNumber |-> SeqShort, Data |-> DataEAcute],
     [SequenceNumber |-> SeqLong, Data |-> DataHi],
     [SequenceNumber |-> SeqShort, Data |-> DataLong],
     [SequenceNumber |-> SeqShort, Data |-> DataTruncated],
     [SequenceNumber |-> SeqLong, Data |-> DataBadStart]}

\* The sequences over S of length at most n
SeqsUpTo(S, n) == UNION {[1..m -> S] : m \in 0..n}

----------------------------------------------------------------------------
(* bytes.decode('utf-8'), strict error handling *)

IsCont(b) == b >= 128 /\ b <= 191

\* Number of bytes of the sequence that starts with byte b, 0 if b cannot
\* start a sequence
SeqLen(b) ==
    IF b <= 127 THEN 1
    ELSE IF b >= 194 /\ b <= 223 THEN 2
    ELSE IF b >= 224 /\ b <= 239 THEN 3
    ELSE IF b >= 240 /\ b <= 244 THEN 4
    ELSE 0

\* Range allowed for the second byte after start byte b
SecondOk(b, c) ==
    IF b = 224 THEN c >= 160 /\ c <= 191
    ELSE IF b = 237 THEN c >= 128 /\ c <= 159
    ELSE IF b = 240 THEN c >= 144 /\ c <= 191
    ELSE IF b = 244 THEN c >= 128 /\ c <= 143
    ELSE IsCont(c)

\* TRUE iff a well-formed sequence starts at position p of bytes
WellFormedAt(bytes, p) ==
    LET n == SeqLen(bytes[p])
    IN  /\ n > 0
        /\ p + n - 1 <= Len(bytes)
        /\ n >= 2 => SecondOk(bytes[p], bytes[p + 1])
        /\ \A k \in 2..(n - 1) : IsCont(bytes[p + k])

CodePointAt(bytes, p) ==
    LET b == bytes[p]
        n == SeqLen(b)
    IN  IF n = 1 THEN b
        ELSE IF n = 2 THEN (b % 32) * 64 + (bytes[p + 1] % 64)
        ELSE IF n = 3 THEN (b % 16) * 4096 + (bytes[p + 1] % 64) * 64
                           + (bytes[p + 2] % 64)
        ELSE (b % 8) * 262144 + (bytes[p + 1] % 64) * 4096
             + (bytes[p + 2] % 64) * 64 + (bytes[p + 3] % 64)

\* The positions of bytes where a sequence starts: those of the bytes that
\* are not continuation bytes, in increasing order
Starts(bytes) ==
    SelectSeq([p \in 1..Len(bytes) |-> p], LAMBDA p : ~IsCont(bytes[p]))

\* TRUE iff bytes.decode('utf-8') returns (does not raise
\* UnicodeDecodeError): a well-formed sequence starts at every start
\* position, and every continuation byte lies inside one of them
Decodable(bytes) ==
    LET starts == Starts(bytes)
    IN  /\ \A k \in 1..Len(starts) : WellFormedAt(bytes, starts[k])
        /\ \A p \in 1..Len(bytes) :
              IsCont(bytes[p]) =>
                  \E k \in 1..Len(starts) :
                      /\ starts[k] < p
                      /\ p < starts[k] + SeqLen(bytes[starts[k]])

\* The text bytes.decode('utf-8') returns, for Decodable(bytes): one code
\* point per sequence
Decode(bytes) ==
    LET starts == Starts(bytes)
    IN  [k \in 1..Len(starts) |-> CodePointAt(bytes, starts[k])]

----------------------------------------------------------------------------
(* str.format with fmt = "{:^20} {:^60} {:<40}" *)

\* Variant of Center: the odd space goes to the left
CenterOddLeft(s, w) ==
    LET total == Max(w - Len(s), 0)
        right == total \div 2
    IN  Rep(SP, total - right) \o s \o Rep(SP, right)

\* "{:^w}": centred in at least w characters, the odd space on the right
Center(s, w) ==
    LET total == Max(w - Len(s), 0)
        left == total \div 2
    IN  Rep(SP, left) \o s \o Rep(SP, total - left)

\* Variant of LeftAlign: "{:<}", no minimum width
LeftAlignNoPad(s, w) == s

\* "{:<w}": left-aligned in at least w characters
LeftAlign(s, w) == s \o Rep(SP, Max(w - Len(s), 0))

Fmt(a, b, c) ==
    Center(a, ShardWidth) \o <<SP>> \o Center(b, PositionWidth) \o <<SP>>
        \o LeftAlign(c, MessageWidth)

HeaderLine == Fmt(StrShard, StrPosition, StrMessage)
SeparatorLine == Fmt(Rep(DASH, ShardWidth), Rep(DASH, PositionWidth), Rep(DASH, MessageWidth))

----------------------------------------------------------------------------
(* main(args) *)

Init ==
    /\ pc = "client"
    /\ stream_name \in StreamNames
    /\ shard_id \in ShardIds
    /\ aws_region \in Regions
    /\ calls = <<>>
    /\ itr_response = None
    /\ shard_itr = Unbound
    /\ records_response = None
    /\ idx = 0
    /\ out = <<>>
    /\ exit = Running

\* An exception leaves main and the interpreter exits with status 1
Raise ==
    /\ pc' = "done"
    /\ exit' = 1

\* line 14: boto3.client('kinesis', region_name=aws_region)
CreateClient ==
    /\ pc = "client"
    /\ pc' = "get_shard_iterator"
    /\ UNCHANGED <<stream_name, shard_id, aws_region, calls, itr_response,
                   shard_itr, records_response, idx, out, exit>>

CreateClientFail ==
    /\ pc = "client"
    /\ Raise
    /\ UNCHANGED <<stream_name, shard_id, aws_region, calls, itr_response,
                   shard_itr, records_response, idx, out>>

\* Variant of ShardIteratorRequest: the newest position instead of the oldest
ShardIteratorRequestLatest ==
    [op |-> "get_shard_iterator", StreamName |-> stream_name,
     ShardId |-> shard_id, ShardIteratorType |-> "LATEST"]

ShardIteratorRequest ==
    [op |-> "get_shard_iterator", StreamName |-> stream_name,
     ShardId |-> shard_id, ShardIteratorType |-> "TRIM_HORIZON"]

\* lines 16-18: the request is sent
CallGetShardIterator ==
    /\ pc = "get_shard_iterator"
    /\ calls' = Append(calls, ShardIteratorRequest)
    /\ pc' = "await_shard_iterator"
    /\ UNCHANGED <<stream_name, shard_id, aws_region, itr_response,
                   shard_itr, records_response, idx, out, exit>>

\* lines 16-18: the response arrives
GetShardIteratorReturn ==
    /\ pc = "await_shard_iterator"
    /\ \E c \in Cursors : itr_response' = [ShardIterator |-> c]
    /\ pc' = "read_shard_iterator"
    /\ UNCHANGED <<stream_name, shard_id, aws_region, calls, shard_itr,
                   records_response, idx, out, exit>>

\* line 20: shard_itr = itr_response['ShardIterator']
ReadShardIterator ==
    /\ pc = "read_shard_iterator"
    /\ shard_itr' = itr_response.ShardIterator
    /\ pc' = "get_records"
    /\ UNCHANGED <<stream_name, shard_id, aws_region, calls, itr_response,
                   records_response, idx, out, exit>>

\* Variant of GetShardIteratorFail: the exception is swallowed and the
\* script goes on to line 21
GetShardIteratorFailSwallowed ==
    /\ pc = "await_shard_iterator"
    /\ pc' = "get_records"
    /\ UNCHANGED <<stream_name, shard_id, aws_region, calls, itr_response,
                   shard_itr, records_response, idx, out, exit>>

GetShardIteratorFail ==
    /\ pc = "await_shard_iterator"
    /\ Raise
    /\ UNCHANGED <<stream_name, shard_id, aws_region, calls, itr_response,
                   shard_itr, records_response, idx, out>>

\* Variant of RecordsRequest: a fixed cursor instead of the returned one
RecordsRequestFixedCursor ==
    [op |-> "get_records", ShardIterator |-> "abc123", Limit |-> Limit]

RecordsRequest ==
    [op |-> "get_records", ShardIterator |-> shard_itr, Limit |-> Limit]

\* line 21: the request is sent
CallGetRecords ==
    /\ pc = "get_records"
    /\ calls' = Append(calls, RecordsRequest)
    /\ pc' = "await_records"
    /\ UNCHANGED <<stream_name, shard_id, aws_region, itr_response,
                   shard_itr, records_response, idx, out, exit>>

\* line 21: the service answers with at most Limit records and a next cursor
GetRecordsReturn ==
    /\ pc = "await_records"
    /\ \E recs \in SeqsUpTo(RecordValues, Min(MaxRecords, calls[Len(calls)].Limit)),
          nxt \in NextCursors :
          records_response' = [Records |-> recs, NextShardIterator |-> nxt]
    /\ pc' = "header"
    /\ UNCHANGED <<stream_name, shard_id, aws_region, calls, itr_response,
                   shard_itr, idx, out, exit>>

\* Variant of GetRecordsFail: the failed request is sent once more
GetRecordsRetryOnce ==
    /\ pc = "await_records"
    /\ IF Len(calls) < 3
          THEN pc' = "get_records" /\ UNCHANGED exit
          ELSE Raise
    /\ UNCHANGED <<stream_name, shard_id, aws_region, calls, itr_response,
                   shard_itr, records_response, idx, out>>

GetRecordsFail ==
    /\ pc = "await_records"
    /\ Raise
    /\ UNCHANGED <<stream_name, shard_id, aws_region, calls, itr_response,
                   shard_itr, records_response, idx, out>>

\* line 24
PrintHeader ==
    /\ pc = "header"
    /\ out' = Append(out, HeaderLine)
    /\ pc' = "separator"
    /\ UNCHANGED <<stream_name, shard_id, aws_region, calls, itr_response,
                   shard_itr, records_response, idx, exit>>

\* Variant of PrintSeparator: the loop starts at the second record
PrintSeparatorSkipFirst ==
    /\ pc = "separator"
    /\ out' = Append(out, SeparatorLine)
    /\ idx' = 2
    /\ pc' = "loop"
    /\ UNCHANGED <<stream_name, shard_id, aws_region, calls, itr_response,
                   shard_itr, records_response, exit>>

\* lines 25-26: the separator is printed and the loop starts
PrintSeparator ==
    /\ pc = "separator"
    /\ out' = Append(out, SeparatorLine)
    /\ idx' = 1
    /\ pc' = "loop"
    /\ UNCHANGED <<stream_name, shard_id, aws_region, calls, itr_response,
                   shard_itr, records_response, exit>>

\* Variant of RowOf: the payload is printed without decoding
RowOfRaw(record) == Fmt(shard_id, record.SequenceNumber, record.Data)

RowOf(record) == Fmt(shard_id, record.SequenceNumber, Decode(record.Data))

\* lines 26-27: one iteration, the payload decodes
PrintRow ==
    /\ pc = "loop"
    /\ idx <= Len(records_response.Records)
    /\ LET record == records_response.Records[idx]
       IN  /\ Decodable(record.Data)
           /\ out' = Append(out, RowOf(record))
    /\ idx' = idx + 1
    /\ UNCHANGED <<pc, stream_name, shard_id, aws_region, calls,
                   itr_response, shard_itr, records_response, exit>>

\* Variant of DecodeFail: the record is skipped and the loop goes on
DecodeSkip ==
    /\ pc = "loop"
    /\ idx <= Len(records_response.Records)
    /\ ~Decodable(records_response.Records[idx].Data)
    /\ idx' = idx + 1
    /\ UNCHANGED <<pc, stream_name, shard_id, aws_region, calls,
                   itr_response, shard_itr, records_response, out, exit>>

\* Variant of DecodeFail: the exception is swallowed and main returns
DecodeFailSwallowed ==
    /\ pc = "loop"
    /\ idx <= Len(records_response.Records)
    /\ ~Decodable(records_response.Records[idx].Data)
    /\ pc' = "done"
    /\ exit' = 0
    /\ UNCHANGED <<stream_name, shard_id, aws_region, calls, itr_response,
                   shard_itr, records_response, idx, out>>

\* lines 26-27: one iteration, decode raises UnicodeDecodeError
DecodeFail ==
    /\ pc = "loop"
    /\ idx <= Len(records_response.Records)
    /\ ~Decodable(records_response.Records[idx].Data)
    /\ Raise
    /\ UNCHANGED <<stream_name, shard_id, aws_region, calls, itr_response,
                   shard_itr, records_response, idx, out>>

\* line 26, 37: the loop is exhausted, main returns, exit status 0
Return ==
    /\ pc = "loop"
    /\ idx > Len(records_response.Records)
    /\ pc' = "done"
    /\ exit' = 0
    /\ UNCHANGED <<stream_name, shard_id, aws_region, calls, itr_response,
                   shard_itr, records_response, idx, out>>

Next ==
    \/ CreateClient
    \/ CreateClientFail
    \/ CallGetShardIterator
    \/ GetShardIteratorReturn
    \/ ReadShardIterator
    \/ GetShardIteratorFail
    \/ CallGetRecords
    \/ GetRecordsReturn
    \/ GetRecordsFail
    \/ PrintHeader
    \/ PrintSeparator
    \/ PrintRow
    \/ DecodeFail
    \/ Return

Spec == Init /\ [][Next]_vars

\* The interpreter runs the script to its end: a remote call returns or
\* raises (client timeouts), every other step is local computation
FairSpec == Spec /\ WF_vars(Next)

TypeOK ==
    /\ pc \in {"client", "get_shard_iterator", "await_shard_iterator",
               "read_shard_iterator", "get_records", "await_records", "header", "separator",
               "loop", "done"}
    /\ exit \in {Running, 0, 1}
    /\ Len(calls) <= 2
    /\ Len(out) <= 2 + MaxRecords

----------------------------------------------------------------------------
(* Vocabulary of the properties *)

Records == records_response.Records
NumRecords == Len(Records)

IteratorReturned == itr_response # None
RecordsReturned == records_response # None

CallsOf(name) == {k \in 1..Len(calls) : calls[k].op = name}

\* The get_shard_iterator call was made, is no longer pending, and gave no
\* response: it raised
IteratorCallFailed ==
    /\ CallsOf("get_shard_iterator") # {}
    /\ pc # "await_shard_iterator"
    /\ ~IteratorReturned

\* The get_records call was made, is no longer pending, and gave no response
RecordsCallFailed ==
    /\ CallsOf("get_records") # {}
    /\ pc # "await_records"
    /\ ~RecordsReturned

\* Positions of the batch whose payload is not valid UTF-8
InvalidAt == {k \in 1..NumRecords : ~Decodable(Records[k].Data)}

\* Position of the first invalid payload, NumRecords + 1 when there is none
FirstInvalid ==
    IF InvalidAt = {} THEN NumRecords + 1
    ELSE CHOOSE k \in InvalidAt : \A j \in InvalidAt : k <= j

DataRows == Len(out) - 2

\* field is value with spaces on its sides only
Padded(field, value) ==
    /\ Len(value) <= Len(field)
    /\ \E l \in 0..(Len(field) - Len(value)) :
          field = Rep(32, l) \o value \o Rep(32, Len(field) - Len(value) - l)

\* line is three columns of w1, w2 and w3 characters, a space between them
HasColumns(line, w1, w2, w3) ==
    /\ Len(line) = w1 + 1 + w2 + 1 + w3
    /\ line[w1 + 1] = 32
    /\ line[w1 + 1 + w2 + 1] = 32

\* line shows a, b and c, in this order, each in a column as wide as its
\* minimum width or as its value, whichever is longer
RowShows(line, a, b, c) ==
    LET w1 == Max(20, Len(a))
        w2 == Max(60, Len(b))
        w3 == Max(40, Len(c))
    IN  /\ HasColumns(line, w1, w2, w3)
        /\ Padded(SubSeq(line, 1, w1), a)
        /\ Padded(SubSeq(line, w1 + 2, w1 + 1 + w2), b)
        /\ Padded(SubSeq(line, w1 + w2 + 3, w1 + w2 + w3 + 2), c)

\* The two lines printed before the rows, written out
ExpectedHeader ==
    Rep(32, 7) \o StrShard \o Rep(32, 8) \o <<32>>
        \o Rep(32, 26) \o StrPosition \o Rep(32, 26) \o <<32>>
        \o StrMessage \o Rep(32, 33)
ExpectedSeparator ==
    Rep(45, 20) \o <<32>> \o Rep(45, 60) \o <<32>> \o Rep(45, 40)

----------------------------------------------------------------------------
(* Properties *)

\* C1: once get_shard_iterator has returned cursor C, get_records is invoked
\* (as soon as the script passes line 21) and every get_records request
\* carries ShardIterator = C and Limit = 200.
C1_RecordsCallUsesReturnedCursor ==
    /\ \A k \in CallsOf("get_records") :
          /\ IteratorReturned
          /\ calls[k].ShardIterator = itr_response.ShardIterator
          /\ calls[k].Limit = 200
    /\ (IteratorReturned /\ pc \notin {"read_shard_iterator", "get_records"})
          => CallsOf("get_records") # {}

C1_Witness ==
    /\ CallsOf("get_records") # {}
    /\ itr_response = [ShardIterator |-> "def456"]

\* C2 (as stated): a finished run has printed either nothing or the whole
\* table, header, separator and one row per returned record.
C2_NoPartialOutput ==
    pc = "done" =>
        \/ out = <<>>
        \/ RecordsReturned /\ Len(out) = 2 + NumRecords

\* C2 (amended): a finished run has printed the whole table and exits with
\* 0, or failed before get_records returned and printed nothing, or failed on
\* the first payload that is not valid UTF-8 after printing the header, the
\* separator and the rows of the records before it.
C2_OutputWholeOrCutAtFailure ==
    pc = "done" =>
        \/ /\ exit = 0
           /\ RecordsReturned
           /\ Len(out) = 2 + NumRecords
        \/ /\ exit = 1
           /\ ~RecordsReturned
           /\ out = <<>>
        \/ /\ exit = 1
           /\ RecordsReturned
           /\ InvalidAt # {}
           /\ Len(out) = 2 + (FirstInvalid - 1)
           /\ out[1] = ExpectedHeader
           /\ out[2] = ExpectedSeparator

C2_Witness ==
    /\ pc = "done"
    /\ exit = 1
    /\ RecordsReturned
    /\ FirstInvalid = 2
    /\ Len(out) = 3

\* C3: a run that returns after get_records gave N >= 1 records with valid
\* payloads has printed exactly N data rows, and the i-th row shows the
\* shard id, the i-th sequence number and the i-th decoded payload.
C3_OneRowPerRecordInOrder ==
    (pc = "done" /\ RecordsReturned /\ NumRecords >= 1 /\ InvalidAt = {}) =>
        /\ DataRows = NumRecords
        /\ \A i \in 1..NumRecords :
              RowShows(out[2 + i], shard_id, Records[i].SequenceNumber,
                       Decode(Records[i].Data))

C3_Witness ==
    /\ pc = "done"
    /\ RecordsReturned
    /\ NumRecords = 3
    /\ InvalidAt = {}
    /\ Records[1].Data = DataEAcute
    /\ Records[2].Data = DataHi
    /\ Records[1].SequenceNumber # Records[3].SequenceNumber

\* C4: when get_records returns no record the run ends with exit status 0
\* and its output is exactly the header line and the separator line.
C4_EmptyBatchPrintsHeaderOnly ==
    (pc = "done" /\ RecordsReturned /\ NumRecords = 0) =>
        /\ out = <<ExpectedHeader, ExpectedSeparator>>
        /\ exit = 0

C4_Witness ==
    /\ pc = "done"
    /\ RecordsReturned
    /\ NumRecords = 0

\* C5: when get_shard_iterator fails the run is over with exit status 1, no
\* get_records request was made and nothing was printed.
C5_IteratorFailureStopsRun ==
    IteratorCallFailed =>
        /\ pc = "done"
        /\ exit = 1
        /\ CallsOf("get_records") = {}
        /\ out = <<>>

C5_Witness ==
    /\ IteratorCallFailed
    /\ pc = "done"

\* C6: when the batch has a payload that is not valid UTF-8, no row is ever
\* printed for the first such record or for any record after it, and the
\* run ends with exit status 1.
C6_InvalidPayloadIsFatal ==
    (RecordsReturned /\ InvalidAt # {}) =>
        /\ DataRows < FirstInvalid
        /\ idx <= FirstInvalid
        /\ pc = "done" => exit = 1

C6_Witness ==
    /\ pc = "done"
    /\ RecordsReturned
    /\ NumRecords = 3
    /\ FirstInvalid = 2
    /\ Decodable(Records[3].Data)

\* C7: get_shard_iterator is requested at most once, for the given stream and
\* shard with type TRIM_HORIZON; get_records is requested at most once, and
\* only after get_shard_iterator has returned; nothing is printed before
\* get_records has returned.
C7_CallsOrderedAndBounded ==
    /\ Cardinality(CallsOf("get_shard_iterator")) <= 1
    /\ Cardinality(CallsOf("get_records")) <= 1
    /\ \A k \in CallsOf("get_shard_iterator") :
          /\ calls[k].StreamName = stream_name
          /\ calls[k].ShardId = shard_id
          /\ calls[k].ShardIteratorType = "TRIM_HORIZON"
    /\ \A k \in CallsOf("get_records") :
          /\ IteratorReturned
          /\ \E j \in CallsOf("get_shard_iterator") : j < k
    /\ out # <<>> => RecordsReturned

C7_Witness ==
    /\ Len(calls) = 2
    /\ Len(out) = 2 + MaxRecords

\* C8: every run terminates; a failed get_records is not retried (the run is
\* over with exit status 1 and two requests made in all); the exit status is
\* 0 exactly when both remote calls returned and every payload decoded.
C8_TerminatesWithoutRetry ==
    /\ <>(pc = "done")
    /\ [](RecordsCallFailed =>
            /\ pc = "done"
            /\ exit = 1
            /\ Len(calls) = 2)
    /\ [](pc = "done" =>
            /\ exit \in {0, 1}
            /\ exit = 0 <=> (/\ IteratorReturned
                             /\ RecordsReturned
                             /\ InvalidAt = {}))

C8_Witness ==
    /\ RecordsCallFailed
    /\ pc = "done"

\* C9 (as stated): in every printed line the columns occupy exactly 20, 60
\* and 40 characters.
C9_ColumnsExactlyFixed ==
    \A n \in 1..Len(out) : HasColumns(out[n], 20, 60, 40)

\* C9 (amended): the header and the separator have columns of exactly 20, 60
\* and 40 characters; in a data row each column is as wide as its value when
\* the value is longer than 20, 60 or 40 characters, and exactly 20, 60 or 40
\* characters wide otherwise.
C9_ColumnsAtLeastFixed ==
    /\ \A n \in 1..Min(Len(out), 2) : HasColumns(out[n], 20, 60, 40)
    /\ \A i \in 1..DataRows :
          HasColumns(out[2 + i],
                     Max(20, Len(shard_id)),
                     Max(60, Len(Records[i].SequenceNumber)),
                     Max(40, Len(Decode(Records[i].Data))))

C9_Witness ==
    /\ DataRows >= 2
    /\ Len(shard_id) > 20
    /\ Len(Records[1].SequenceNumber) > 60
    /\ Len(Records[2].Data) > 40
    /\ Len(Records[2].SequenceNumber) < 60

\* C10: once get_records has returned, the data rows printed so far are the
\* rows of the first j records in returned order, for some j; a run that
\* failed on the first invalid payload, at position k, has printed the
\* header, the separator and exactly the rows of records 1..k-1.
C10_RowsArePrefixOfBatch ==
    RecordsReturned =>
        /\ Len(out) <= 2 + NumRecords
        /\ Len(out) >= 1 => out[1] = ExpectedHeader
        /\ Len(out) >= 2 => out[2] = ExpectedSeparator
        /\ \A i \in 1..DataRows :
              /\ Decodable(Records[i].Data)
              /\ out[2 + i] = Fmt(shard_id, Records[i].SequenceNumber,
                                  Decode(Records[i].Data))
        /\ (pc = "done" /\ InvalidAt # {}) =>
              /\ exit = 1
              /\ DataRows = FirstInvalid - 1

C10_Witness ==
    /\ pc = "done"
    /\ RecordsReturned
    /\ FirstInvalid = 3
    /\ NumRecords = 3
    /\ DataRows = 2
    /\ Records[1] # Records[2]

====
